---- MODULE Spec2Model ----
(***************************************************************************)
(* Model of ObjectDetector (src/bot.py): the detection run                 *)
(* check_for_objects with its helpers capture_image, detect_object,        *)
(* save_image and send_telegram_notification, executed by the main thread  *)
(* (scheduled runs) and by threads spawned by /detect and by the hotkey.   *)
(* The runs share the working directory (temp_image.jpg,                   *)
(* temp_detection_image.jpg, the archive directory) and notify_users.      *)
(***************************************************************************)
EXTENDS Integers, Sequences, FiniteSets, TLC

\* ---------------------------------------------------------------- bounds
MaxUsers == 2

\* ------------------------------------------------------------- constants
\* the main thread runs the scheduled detections (start, lines 420-446);
\* /detect and the hotkey run theirs on a thread of their own
Main == "main"
Spawned == "spawned"
Threads == {Main, Spawned}
Users == 1..MaxUsers
\* the users who send /detect. The code only compares user ids for equality
\* and notify_users takes every order, so one requester, on the list or not
\* and at any position of it, stands for all of them
Requesters == {u \in Users : \A v \in Users : u <= v}
NoUser == 0

\* strings are sequences of one-character strings
UpperLetters == <<"A","B","C","D","E","F","G","H","I","J","K","L","M",
                  "N","O","P","Q","R","S","T","U","V","W","X","Y","Z">>
LowerLetters == <<"a","b","c","d","e","f","g","h","i","j","k","l","m",
                  "n","o","p","q","r","s","t","u","v","w","x","y","z">>
Digits == {"0","1","2","3","4","5","6","7","8","9"}
Range(f) == {f[i] : i \in DOMAIN f}

\* str.lower()
LowerChar(c) ==
    IF c \in Range(UpperLetters)
    THEN LowerLetters[CHOOSE i \in DOMAIN UpperLetters : UpperLetters[i] = c]
    ELSE c
Lower(s) == [i \in DOMAIN s |-> LowerChar(s[i])]

\* the regex class \w
IsWordChar(c) ==
    c \in Range(UpperLetters) \cup Range(LowerLetters) \cup Digits \cup {"_"}

\* set(re.findall(r'\b\w+\b', s)): the maximal runs of word characters
RECURSIVE FindAllWords(_, _, _)
FindAllWords(s, i, cur) ==
    LET flush == IF cur = <<>> THEN {} ELSE {cur} IN
    IF i > Len(s) THEN flush
    ELSE IF IsWordChar(s[i]) THEN FindAllWords(s, i + 1, Append(cur, s[i]))
    ELSE flush \cup FindAllWords(s, i + 1, <<>>)

\* config['detection']['trigger_words']
trigger_words == << <<"d","o","g">>, <<"C","a","t">> >>

\* the camera returns one of two pictures; CaptionOf is what describe_image
\* generates for each of them
Images == {"img_cat", "img_empty"}
NoImage == "none"
CaptionOf(img) ==
    IF img = "img_cat" THEN <<"a"," ","c","a","t",".">>
    ELSE <<"c","a","t","s","u","p">>

\* paths: the two fixed names of the working directory, and the names
\* "<trigger_word>_<timestamp>.jpg" of the archive directory. The timestamp
\* has a resolution of one second; the runs of the model save within the same
\* second, which is the case where two runs can name the same archive file.
TempImage == << "dir", <<"temp_image.jpg">> >>
TempDetection == << "dir", <<"temp_detection_image.jpg">> >>
NoPath == << "none", <<>> >>
Unknown == <<"u","n","k","n","o","w","n">>
ArchivePath(word) == << "archive", word >>
ArchiveNames == {ArchivePath(w) : w \in Range(trigger_words) \cup {Unknown}}
Paths == {TempImage, TempDetection} \cup ArchiveNames

\* a file of the disk: whether it exists, and the bytes it holds
NoFile == [exists |-> FALSE, data |-> NoImage]
FileOf(d) == [exists |-> TRUE, data |-> d]

VARIABLES
    notify_users,          \* config['telegram']['notify_users']
    initial_run,           \* the main thread has not yet returned from line 429 of start
    save_detected_images,  \* config['app']['save_detected_images']
    disk,                  \* path -> file
    pc,                    \* thread -> position in check_for_objects
    requested_by,          \* thread -> requester of the run (NoUser = None)
    explicit_request,      \* thread -> explicit_request argument
    manual,                \* thread -> manual argument
    image_data,            \* thread -> bytes returned by capture_image
    detection_result,      \* thread -> DetectionResult
    image_path,            \* thread -> path returned by save_image
    loop_i,                \* thread -> index of the broadcast loop
    sent,                  \* thread -> Bot API calls made by the run, in order
    steps,                 \* thread -> pipeline steps the run has entered
    captioned,             \* thread -> the bytes describe_image read from temp_image.jpg
    m_words,               \* matching alone: the configured trigger_words
    m_tokens,              \* matching alone: the words the caption is made of
    m_sep,                 \* matching alone: what stands between two words of the caption
    m_result               \* matching alone: the DetectionResult of lines 201-212

vars == <<notify_users, initial_run, save_detected_images, disk, pc, requested_by,
          explicit_request, manual, image_data, detection_result, image_path,
          loop_i, sent, steps, captioned, m_words, m_tokens, m_sep, m_result>>
matcher == <<m_words, m_tokens, m_sep, m_result>>

runVars == <<requested_by, explicit_request, manual>>

\* DetectionResult (pydantic model)
DetectionResult(detected, word, caption) ==
    [object_detected |-> detected, trigger_word |-> word, caption |-> caption]
NoResult == DetectionResult(FALSE, <<>>, <<>>)
ErrorCaption == <<"E","r","r","o","r",":">>

\* "word.lower() in caption_lower", what line 208 would be without the
\* split into words
Contains(s, w) ==
    \E k \in 0..(Len(s) - Len(w)) : SubSeq(s, k + 1, k + Len(w)) = w

\* detect_object, lines 206-212: the loop over the configured words, from
\* index i on, left at the first word found in caption_words
RECURSIVE MatchFrom(_, _, _, _)
MatchFrom(words, i, caption_words, caption) ==
    IF i > Len(words) THEN DetectionResult(FALSE, <<>>, caption)
    ELSE IF Lower(words[i]) \in caption_words THEN DetectionResult(TRUE, words[i], caption)
    ELSE MatchFrom(words, i + 1, caption_words, caption)

\* Match without the break of line 212: a later configured word that is
\* found overwrites the earlier one
Match_noBreak(caption, words) ==
    LET caption_words == FindAllWords(Lower(caption), 1, <<>>)
        hits == {i \in DOMAIN words : Lower(words[i]) \in caption_words}
    IN IF hits = {} THEN DetectionResult(FALSE, <<>>, caption)
       ELSE LET last == CHOOSE i \in hits : \A j \in hits : i >= j
            IN DetectionResult(TRUE, words[last], caption)

\* Match testing "word.lower() in caption_lower" on the whole caption
\* instead of on its set of words
Match_substring(caption, words) ==
    LET hits == {i \in DOMAIN words : Contains(Lower(caption), Lower(words[i]))}
    IN IF hits = {} THEN DetectionResult(FALSE, <<>>, caption)
       ELSE LET first == CHOOSE i \in hits : \A j \in hits : i <= j
            IN DetectionResult(TRUE, words[first], caption)

\* detect_object, lines 193-212: the first configured word that is a whole
\* word of the lower-cased caption
Match(caption, words) ==
    MatchFrom(words, 1, FindAllWords(Lower(caption), 1, <<>>), caption)

MatchCaption(caption) == Match(caption, trigger_words)


\* one Bot API call: send_message (photo = FALSE) or send_photo
Msg(to, kind, ok) ==
    [to |-> to, kind |-> kind, photo |-> FALSE, ok |-> ok, data |-> NoImage]
\* the outcome of send_photo changes nothing in the code (the except clause
\* that catches its failure ends the same block), so it is not recorded
Photo(to, kind, file) ==
    [to |-> to, kind |-> kind, photo |-> TRUE, ok |-> TRUE, data |-> file.data]

InitRun ==
    /\ notify_users = <<>>
    /\ initial_run = TRUE
    /\ save_detected_images \in BOOLEAN
    /\ disk = [p \in Paths |-> NoFile]
    /\ pc = [t \in Threads |-> IF t = Main THEN "boot" ELSE "idle"]
    /\ requested_by = [t \in Threads |-> NoUser]
    /\ explicit_request = [t \in Threads |-> FALSE]
    /\ manual = [t \in Threads |-> FALSE]
    /\ image_data = [t \in Threads |-> NoImage]
    /\ detection_result = [t \in Threads |-> NoResult]
    /\ image_path = [t \in Threads |-> NoPath]
    /\ loop_i = [t \in Threads |-> 1]
    /\ sent = [t \in Threads |-> <<>>]
    /\ steps = [t \in Threads |-> {}]
    /\ captioned = [t \in Threads |-> NoImage]

Init ==
    /\ InitRun
    /\ m_words = <<>>
    /\ m_tokens = <<>>
    /\ m_sep = <<>>
    /\ m_result = [done |-> FALSE, result |-> NoResult]

\* entry of check_for_objects(manual, requested_by, explicit_request) on thread t
BeginRun(t, m, rb, ex) ==
    /\ pc' = [pc EXCEPT ![t] = "capture"]
    /\ manual' = [manual EXCEPT ![t] = m]
    /\ requested_by' = [requested_by EXCEPT ![t] = rb]
    /\ explicit_request' = [explicit_request EXCEPT ![t] = ex]
    /\ image_data' = [image_data EXCEPT ![t] = NoImage]
    /\ detection_result' = [detection_result EXCEPT ![t] = NoResult]
    /\ image_path' = [image_path EXCEPT ![t] = NoPath]
    /\ loop_i' = [loop_i EXCEPT ![t] = 1]
    /\ sent' = [sent EXCEPT ![t] = <<>>]
    /\ steps' = [steps EXCEPT ![t] = {}]
    /\ captioned' = [captioned EXCEPT ![t] = NoImage]
    /\ UNCHANGED <<matcher, notify_users, save_detected_images, disk>>

\* the process has run the finally clause of start (lines 450-472): by
\* Ctrl+C, or by an exception that left a scheduled run
Stopped == pc[Main] = "exited" \/ (pc[Main] = "raised" /\ ~initial_run)

\* the updater and the keyboard hook deliver commands and key presses
\* (lines 95 and 337) until the finally clause stops them (lines 454-460)
Listening == ~Stopped

\* start, lines 427-429: the initial detection on the main thread
InitialRun ==
    /\ pc[Main] = "boot"
    /\ BeginRun(Main, FALSE, NoUser, FALSE)
    /\ UNCHANGED initial_run

\* ScheduledRun with the job of line 420 passing explicit_request=True
ScheduledRun_explicit ==
    /\ pc[Main] = "done"
    /\ BeginRun(Main, FALSE, NoUser, TRUE)
    /\ UNCHANGED initial_run

\* start, lines 420 and 444-446: a scheduled detection on the main thread
ScheduledRun ==
    /\ pc[Main] = "done"
    /\ BeginRun(Main, FALSE, NoUser, FALSE)
    /\ UNCHANGED initial_run

\* a thread can be started when the previous one of the slot has ended
Free(t) == pc[t] \in {"idle", "done", "raised"}

\* DetectCommand passing explicit_request=False with the requester
DetectCommand_implicit(u) ==
    /\ Listening
    /\ Free(Spawned)
    /\ BeginRun(Spawned, TRUE, u, FALSE)
    /\ UNCHANGED initial_run

\* _detect_command, lines 154-163. The reply "Triggering manual detection..."
\* of line 159 comes from the handler before the run starts; it is not one of
\* the calls of the run
DetectCommand(u) ==
    /\ Listening
    /\ Free(Spawned)
    /\ BeginRun(Spawned, TRUE, u, TRUE)
    /\ UNCHANGED initial_run

\* ManualTrigger calling check_for_objects on the thread of the polling loop
\* instead of a new thread
ManualTrigger_sync ==
    /\ Listening
    /\ pc[Main] = "done"
    /\ BeginRun(Main, TRUE, NoUser, FALSE)
    /\ UNCHANGED initial_run

\* manual_trigger, lines 339-343
ManualTrigger ==
    /\ Listening
    /\ Free(Spawned)
    /\ BeginRun(Spawned, TRUE, NoUser, FALSE)
    /\ UNCHANGED initial_run

\* StartCommand without the membership test of line 112
StartCommand_noCheck(u) ==
    /\ Listening
    /\ notify_users' = Append(notify_users, u)
    /\ UNCHANGED <<matcher, initial_run, save_detected_images, disk, pc, requested_by,
                   explicit_request, manual, image_data, detection_result, image_path,
                   loop_i, sent, steps, captioned>>

\* _start_command, lines 103-125
StartCommand(u) ==
    /\ Listening
    /\ notify_users' = IF u \in Range(notify_users) THEN notify_users
                       ELSE Append(notify_users, u)
    /\ UNCHANGED <<matcher, initial_run, save_detected_images, disk, pc, requested_by,
                   explicit_request, manual, image_data, detection_result, image_path,
                   loop_i, sent, steps, captioned>>

\* start, lines 433-472: Ctrl+C raises KeyboardInterrupt in the main thread,
\* wherever it is. No "except Exception" of a run catches it, so a run on the
\* main thread is left where it stands. Inside the try of line 433 the
\* finally clause then stops the listeners and calls sys.exit; before it
\* (the initial run of line 429) nothing catches the exception and the main
\* thread ends with the listeners still on. Threads started by /detect or
\* the hotkey are not daemons: they run on to their end.
Sigint ==
    /\ pc[Main] \notin {"exited", "dead", "raised"}
    /\ pc' = [pc EXCEPT ![Main] = IF initial_run THEN "dead" ELSE "exited"]
    /\ manual' = [manual EXCEPT ![Main] = FALSE]
    /\ requested_by' = [requested_by EXCEPT ![Main] = NoUser]
    /\ explicit_request' = [explicit_request EXCEPT ![Main] = FALSE]
    /\ image_data' = [image_data EXCEPT ![Main] = NoImage]
    /\ detection_result' = [detection_result EXCEPT ![Main] = NoResult]
    /\ image_path' = [image_path EXCEPT ![Main] = NoPath]
    /\ loop_i' = [loop_i EXCEPT ![Main] = 1]
    /\ sent' = [sent EXCEPT ![Main] = <<>>]
    /\ steps' = [steps EXCEPT ![Main] = {}]
    /\ captioned' = [captioned EXCEPT ![Main] = NoImage]
    /\ UNCHANGED <<matcher, notify_users, initial_run, save_detected_images, disk>>


\* start, lines 429-433: when the initial run returns, the main thread
\* enters the try statement whose finally clause shuts the process down
Returned(t) == initial_run' = (initial_run /\ ~(t = Main /\ pc'[t] = "done"))

Goto(t, l) == pc' = [pc EXCEPT ![t] = l]
Step(t, name) == steps' = [steps EXCEPT ![t] = @ \cup {name}]
Send(t, msgs) == sent' = [sent EXCEPT ![t] = @ \o msgs]

\* CaptureImage without the return of line 367: after a failed capture the
\* run goes on to detect_object
CaptureImage_noReturn(t) ==
    /\ pc[t] = "capture"
    /\ \/ \E img \in Images :
            /\ image_data' = [image_data EXCEPT ![t] = img]
            /\ UNCHANGED sent
       \/ /\ image_data' = [image_data EXCEPT ![t] = NoImage]
          /\ IF requested_by[t] # NoUser
             THEN \E ok \in BOOLEAN : Send(t, <<Msg(requested_by[t], "capture_failed", ok)>>)
             ELSE UNCHANGED sent
    /\ Goto(t, "detect_write")
    /\ Returned(t)
    /\ UNCHANGED <<matcher, notify_users, save_detected_images, disk, runVars,
                   detection_result, image_path, loop_i, steps, captioned>>

\* check_for_objects, lines 352-367, with capture_image, lines 165-178
CaptureImage(t) ==
    /\ pc[t] = "capture"
    /\ \/ \E img \in Images :
            /\ image_data' = [image_data EXCEPT ![t] = img]
            /\ Goto(t, "detect_write")
            /\ UNCHANGED sent
       \/ /\ image_data' = [image_data EXCEPT ![t] = NoImage]
          /\ Goto(t, "done")
          /\ IF requested_by[t] # NoUser
             THEN \E ok \in BOOLEAN : Send(t, <<Msg(requested_by[t], "capture_failed", ok)>>)
             ELSE UNCHANGED sent
    /\ Returned(t)
    /\ UNCHANGED <<matcher, notify_users, save_detected_images, disk, runVars,
                   detection_result, image_path, loop_i, steps, captioned>>

\* detect_object, lines 184-186: the bytes are written to temp_image.jpg
DetectWrite(t) ==
    /\ pc[t] = "detect_write"
    /\ Step(t, "caption")
    /\ \/ /\ disk' = [disk EXCEPT ![TempImage] = FileOf(image_data[t])]
          /\ Goto(t, "detect_caption")
       \/ /\ Goto(t, "except_exists")
          /\ UNCHANGED disk
    /\ Returned(t)
    /\ UNCHANGED <<matcher, notify_users, save_detected_images, runVars, image_data,
                   detection_result, image_path, loop_i, sent, captioned>>

\* detect_object, lines 188-215: describe_image opens temp_image.jpg, and the
\* caption is matched against the trigger words
DetectCaption(t) ==
    /\ pc[t] = "detect_caption"
    /\ \/ /\ disk[TempImage].exists
          /\ detection_result' =
                [detection_result EXCEPT ![t] = MatchCaption(CaptionOf(disk[TempImage].data))]
          /\ captioned' = [captioned EXCEPT ![t] = disk[TempImage].data]
          /\ Step(t, "match")
          /\ Goto(t, "detect_exists")
       \/ /\ Goto(t, "except_exists")
          /\ UNCHANGED <<detection_result, captioned, steps>>
    /\ Returned(t)
    /\ UNCHANGED <<matcher, notify_users, save_detected_images, disk, runVars, image_data,
                   image_path, loop_i, sent>>

\* detect_object, line 218: temp_file.exists()
DetectExists(t) ==
    /\ pc[t] = "detect_exists"
    /\ Goto(t, IF disk[TempImage].exists THEN "detect_unlink" ELSE "save")
    /\ Returned(t)
    /\ UNCHANGED <<matcher, notify_users, save_detected_images, disk, runVars, image_data,
                   detection_result, image_path, loop_i, sent, steps, captioned>>

\* detect_object, line 219: temp_file.unlink() raises when the file is gone
DetectUnlink(t) ==
    /\ pc[t] = "detect_unlink"
    /\ IF disk[TempImage].exists
       THEN /\ disk' = [disk EXCEPT ![TempImage] = NoFile]
            /\ Goto(t, "save")
       ELSE /\ Goto(t, "except_exists")
            /\ UNCHANGED disk
    /\ Returned(t)
    /\ UNCHANGED <<matcher, notify_users, save_detected_images, runVars, image_data,
                   detection_result, image_path, loop_i, sent, steps, captioned>>

\* ErrorResult with object_detected set: the failure is taken for a match
ErrorResult_detected == DetectionResult(TRUE, Unknown, ErrorCaption)

\* detect_object, lines 228-231: the result of the except branch
ErrorResult == DetectionResult(FALSE, <<>>, ErrorCaption)

\* detect_object, lines 222-226: the except branch tests temp_file.exists()
ExceptExists(t) ==
    /\ pc[t] = "except_exists"
    /\ IF disk[TempImage].exists
       THEN /\ Goto(t, "except_unlink")
            /\ UNCHANGED detection_result
       ELSE /\ Goto(t, "save")
            /\ detection_result' = [detection_result EXCEPT ![t] = ErrorResult]
    /\ Returned(t)
    /\ UNCHANGED <<matcher, notify_users, save_detected_images, disk, runVars, image_data,
                   image_path, loop_i, sent, steps, captioned>>

\* detect_object, lines 227-231: unlink() in the except branch; when the file
\* is gone FileNotFoundError leaves detect_object and check_for_objects
ExceptUnlink(t) ==
    /\ pc[t] = "except_unlink"
    /\ IF disk[TempImage].exists
       THEN /\ disk' = [disk EXCEPT ![TempImage] = NoFile]
            /\ detection_result' = [detection_result EXCEPT ![t] = ErrorResult]
            /\ Goto(t, "save")
       ELSE /\ Goto(t, "raised")
            /\ UNCHANGED <<disk, detection_result>>
    /\ Returned(t)
    /\ UNCHANGED <<matcher, notify_users, save_detected_images, runVars, image_data,
                   image_path, loop_i, sent, steps, captioned>>


\* SaveWanted without the condition of line 374: every run calls save_image
SaveWanted_always(t) == TRUE

\* check_for_objects, line 374: whether save_image is called
SaveWanted(t) == explicit_request[t] \/ detection_result[t].object_detected

\* save_image, lines 238-239 and 248-251: the path the bytes are written to
SavePaths(t) ==
    IF ~save_detected_images THEN {TempDetection}
    ELSE LET trigger_word == IF detection_result[t].trigger_word # <<>>
                             THEN detection_result[t].trigger_word ELSE Unknown
         IN {ArchivePath(trigger_word)}

\* NotifyAll with the explicit-request branch lost: every matched run broadcasts
NotifyAll_always(t) == TRUE

\* check_for_objects, lines 382-385: the notify_all argument
NotifyAll(t) == ~(explicit_request[t] /\ requested_by[t] # NoUser)

\* send_telegram_notification, lines 272-276: whether the loop over
\* notify_users is entered
LoopEntered(t) == ~(~NotifyAll(t) /\ requested_by[t] # NoUser)

\* Dispatch where an unmatched run without requester notifies as a matched one
Dispatch_unmatchedBroadcast(t) ==
    IF detection_result[t].object_detected \/ requested_by[t] = NoUser
    THEN IF LoopEntered(t) THEN "broadcast" ELSE "requester"
    ELSE "negative"

\* check_for_objects, lines 378-390: what follows save_image
Dispatch(t) ==
    IF detection_result[t].object_detected
    THEN IF LoopEntered(t) THEN "broadcast" ELSE "requester"
    ELSE IF requested_by[t] # NoUser THEN "negative" ELSE "done"

\* SaveImage without the try of save_image: a failed write ends the run
SaveImage_abortsOnFailure(t) ==
    /\ pc[t] = "save"
    /\ IF SaveWanted(t)
       THEN \/ \E path \in SavePaths(t) :
                 /\ disk' = [disk EXCEPT ![path] = FileOf(image_data[t])]
                 /\ image_path' = [image_path EXCEPT ![t] = path]
                 /\ Goto(t, Dispatch(t))
            \/ /\ image_path' = [image_path EXCEPT ![t] = NoPath]
               /\ Goto(t, "done")
               /\ UNCHANGED disk
       ELSE /\ Goto(t, Dispatch(t))
            /\ UNCHANGED <<disk, image_path>>
    /\ steps' = [steps EXCEPT ![t] = @ \cup (IF SaveWanted(t) THEN {"persist"} ELSE {})
                                       \cup (IF Dispatch(t) # "done" THEN {"dispatch"} ELSE {})]
    /\ Returned(t)
    /\ UNCHANGED <<matcher, notify_users, save_detected_images, runVars, image_data,
                   detection_result, loop_i, sent, captioned>>

\* check_for_objects, lines 372-390, with save_image, lines 233-260
SaveImage(t) ==
    /\ pc[t] = "save"
    /\ IF SaveWanted(t)
       THEN \/ \E path \in SavePaths(t) :
                 /\ disk' = [disk EXCEPT ![path] = FileOf(image_data[t])]
                 /\ image_path' = [image_path EXCEPT ![t] = path]
            \/ /\ image_path' = [image_path EXCEPT ![t] = NoPath]
               /\ UNCHANGED disk
       ELSE UNCHANGED <<disk, image_path>>
    /\ steps' = [steps EXCEPT ![t] = @ \cup (IF SaveWanted(t) THEN {"persist"} ELSE {})
                                       \cup (IF Dispatch(t) # "done" THEN {"dispatch"} ELSE {})]
    /\ Goto(t, Dispatch(t))
    /\ Returned(t)
    /\ UNCHANGED <<matcher, notify_users, save_detected_images, runVars, image_data,
                   detection_result, loop_i, sent, captioned>>

\* TextThenPhoto with send_photo in a try of its own: the image is sent
\* whether or not the text was
TextThenPhoto_photoAnyway(t, to, textKind, photoKind, withPhoto) ==
    IF withPhoto /\ disk[image_path[t]].exists
    THEN {<<Msg(to, textKind, ok), Photo(to, photoKind, disk[image_path[t]])>> :
             ok \in BOOLEAN}
    ELSE {<<Msg(to, textKind, ok)>> : ok \in BOOLEAN}

\* the calls of one "send the text, then the image if there is one" block
\* (lines 286-298, 308-320, 393-405): a failed send_message raises past the
\* send_photo; open(image_path) reads the file as it is on disk now
TextThenPhoto(t, to, textKind, photoKind, withPhoto) ==
    {<<Msg(to, textKind, FALSE)>>}
    \cup IF withPhoto /\ disk[image_path[t]].exists
         THEN {<<Msg(to, textKind, TRUE), Photo(to, photoKind, disk[image_path[t]])>>}
         ELSE {<<Msg(to, textKind, TRUE)>>}

\* Broadcast with the loop bound off by one: the last entry is never served
Broadcast_stopsEarly(t) ==
    /\ pc[t] = "broadcast"
    /\ IF loop_i[t] >= Len(notify_users)
       THEN /\ Goto(t, IF requested_by[t] # NoUser THEN "requester" ELSE "done")
            /\ UNCHANGED <<loop_i, sent>>
       ELSE LET user_id == notify_users[loop_i[t]] IN
            /\ loop_i' = [loop_i EXCEPT ![t] = @ + 1]
            /\ IF requested_by[t] # NoUser /\ user_id = requested_by[t]
               THEN UNCHANGED sent
               ELSE \E msgs \in TextThenPhoto(t, user_id, "alert", "alert_photo",
                                              image_path[t] # NoPath) : Send(t, msgs)
            /\ UNCHANGED pc
    /\ Returned(t)
    /\ UNCHANGED <<matcher, notify_users, save_detected_images, disk, runVars, image_data,
                   detection_result, image_path, steps, captioned>>

\* Broadcast with the try/except around the loop instead of inside it: the
\* first failed send ends the loop
Broadcast_abortsOnFailure(t) ==
    /\ pc[t] = "broadcast"
    /\ IF loop_i[t] > Len(notify_users) \/ (\E k \in DOMAIN sent[t] : ~sent[t][k].ok)
       THEN /\ Goto(t, IF requested_by[t] # NoUser THEN "requester" ELSE "done")
            /\ UNCHANGED <<loop_i, sent>>
       ELSE LET user_id == notify_users[loop_i[t]] IN
            /\ loop_i' = [loop_i EXCEPT ![t] = @ + 1]
            /\ IF requested_by[t] # NoUser /\ user_id = requested_by[t]
               THEN UNCHANGED sent
               ELSE \E msgs \in TextThenPhoto(t, user_id, "alert", "alert_photo",
                                              image_path[t] # NoPath) : Send(t, msgs)
            /\ UNCHANGED pc
    /\ Returned(t)
    /\ UNCHANGED <<matcher, notify_users, save_detected_images, disk, runVars, image_data,
                   detection_result, image_path, steps, captioned>>

\* Broadcast taking an entry off notify_users when the delivery to it fails
Broadcast_dropsFailed(t) ==
    /\ pc[t] = "broadcast"
    /\ IF loop_i[t] > Len(notify_users)
       THEN /\ Goto(t, IF requested_by[t] # NoUser THEN "requester" ELSE "done")
            /\ UNCHANGED <<loop_i, sent, notify_users>>
       ELSE LET user_id == notify_users[loop_i[t]] IN
            /\ loop_i' = [loop_i EXCEPT ![t] = @ + 1]
            /\ IF requested_by[t] # NoUser /\ user_id = requested_by[t]
               THEN UNCHANGED <<sent, notify_users>>
               ELSE \E msgs \in TextThenPhoto(t, user_id, "alert", "alert_photo",
                                              image_path[t] # NoPath) :
                       /\ Send(t, msgs)
                       /\ notify_users' =
                             IF msgs[1].ok THEN notify_users
                             ELSE SelectSeq(notify_users, LAMBDA v : v # user_id)
            /\ UNCHANGED pc
    /\ Returned(t)
    /\ UNCHANGED <<matcher, save_detected_images, disk, runVars, image_data,
                   detection_result, image_path, steps, captioned>>

\* send_telegram_notification, lines 277-302: one iteration of the loop over
\* notify_users, or its end
Broadcast(t) ==
    /\ pc[t] = "broadcast"
    /\ IF loop_i[t] > Len(notify_users)
       THEN /\ Goto(t, IF requested_by[t] # NoUser THEN "requester" ELSE "done")
            /\ UNCHANGED <<loop_i, sent>>
       ELSE LET user_id == notify_users[loop_i[t]] IN
            /\ loop_i' = [loop_i EXCEPT ![t] = @ + 1]
            /\ IF requested_by[t] # NoUser /\ user_id = requested_by[t]
               THEN UNCHANGED sent
               ELSE \E msgs \in TextThenPhoto(t, user_id, "alert", "alert_photo",
                                              image_path[t] # NoPath) : Send(t, msgs)
            /\ UNCHANGED pc
    /\ Returned(t)
    /\ UNCHANGED <<matcher, notify_users, save_detected_images, disk, runVars, image_data,
                   detection_result, image_path, steps, captioned>>

\* Requester sending the alert message of the broadcast instead of the
\* confirmation
Requester_sendsAlert(t) ==
    /\ pc[t] = "requester"
    /\ IF detection_result[t].object_detected
       THEN \E msgs \in TextThenPhoto(t, requested_by[t], "alert", "alert_photo",
                                      image_path[t] # NoPath) : Send(t, msgs)
       ELSE \E ok \in BOOLEAN : Send(t, <<Msg(requested_by[t], "negative", ok)>>)
    /\ Goto(t, "done")
    /\ Returned(t)
    /\ UNCHANGED <<matcher, notify_users, save_detected_images, disk, runVars, image_data,
                   detection_result, image_path, loop_i, steps, captioned>>

\* send_telegram_notification, lines 304-329: the response to the requester
Requester(t) ==
    /\ pc[t] = "requester"
    /\ IF detection_result[t].object_detected
       THEN \E msgs \in TextThenPhoto(t, requested_by[t], "confirm", "confirm_photo",
                                      image_path[t] # NoPath) : Send(t, msgs)
       ELSE \E ok \in BOOLEAN : Send(t, <<Msg(requested_by[t], "negative", ok)>>)
    /\ Goto(t, "done")
    /\ Returned(t)
    /\ UNCHANGED <<matcher, notify_users, save_detected_images, disk, runVars, image_data,
                   detection_result, image_path, loop_i, steps, captioned>>

\* Negative that sends the image only to a matched run (never, here)
Negative_noPhoto(t) ==
    /\ pc[t] = "negative"
    /\ \E msgs \in TextThenPhoto(t, requested_by[t], "negative", "negative_photo",
                                  detection_result[t].object_detected /\ image_path[t] # NoPath) :
          Send(t, msgs)
    /\ Goto(t, "done")
    /\ Returned(t)
    /\ UNCHANGED <<matcher, notify_users, save_detected_images, disk, runVars, image_data,
                   detection_result, image_path, loop_i, steps, captioned>>

\* check_for_objects, lines 390-409: the negative result for the requester
Negative(t) ==
    /\ pc[t] = "negative"
    /\ \E msgs \in TextThenPhoto(t, requested_by[t], "negative", "negative_photo",
                                  explicit_request[t] /\ image_path[t] # NoPath) :
          Send(t, msgs)
    /\ Goto(t, "done")
    /\ Returned(t)
    /\ UNCHANGED <<matcher, notify_users, save_detected_images, disk, runVars, image_data,
                   detection_result, image_path, loop_i, steps, captioned>>

Next ==
    \/ InitialRun
    \/ ScheduledRun
    \/ \E u \in Requesters : DetectCommand(u)
    \/ ManualTrigger
    \/ \E u \in Users : StartCommand(u)
    \/ Sigint
    \/ \E t \in Threads :
          \/ CaptureImage(t)
          \/ DetectWrite(t)
          \/ DetectCaption(t)
          \/ DetectExists(t)
          \/ DetectUnlink(t)
          \/ ExceptExists(t)
          \/ ExceptUnlink(t)
          \/ SaveImage(t)
          \/ Broadcast(t)
          \/ Requester(t)
          \/ Negative(t)

Spec == Init /\ [][Next]_vars


\* ------------------------------------------------------------ properties
Explicit(t) == explicit_request[t] /\ requested_by[t] # NoUser
Matched(t) == detection_result[t].object_detected
Ended(t) == pc[t] \in {"done", "raised"}
Returns(t) == pc[t] # "done" /\ pc'[t] = "done"
Calls(t) == {sent[t][k] : k \in DOMAIN sent[t]}
TextsTo(t, u) == SelectSeq(sent[t], LAMBDA m : m.to = u /\ ~m.photo)
PhotosTo(t, u) == SelectSeq(sent[t], LAMBDA m : m.to = u /\ m.photo)
Alerted(log, u) == \E k \in DOMAIN log : log[k].to = u /\ log[k].kind = "alert"
AlertPhoto(log, u) == \E k \in DOMAIN log : log[k].to = u /\ log[k].kind = "alert_photo"

\* C1 as written: when a matched /detect run returns, every entry of
\* notify_users other than the requester has been sent the alert text.
C1_BroadcastToOthers ==
    [][\A t \in Threads :
         (Returns(t) /\ Explicit(t) /\ Matched(t)) =>
            \A u \in Range(notify_users) \ {requested_by[t]} : Alerted(sent'[t], u)]_vars

\* C1 amended: a matched /detect run sends nothing to anyone but the
\* requester: the confirmation text, followed by the image exactly when that
\* send succeeded and save_image returned a path.
C1_OnlyRequester ==
    \A t \in Threads :
        (pc[t] = "done" /\ Explicit(t) /\ Matched(t)) =>
            /\ \A m \in Calls(t) : m.to = requested_by[t]
            /\ Len(sent[t]) >= 1
            /\ sent[t][1].kind = "confirm"
            /\ Len(sent[t]) = IF sent[t][1].ok /\ image_path[t] # NoPath THEN 2 ELSE 1
            /\ Len(sent[t]) = 2 => sent[t][2].kind = "confirm_photo"

C1_Witness ==
    \E t \in Threads :
        /\ pc[t] = "done" /\ Explicit(t) /\ Matched(t)
        /\ Range(notify_users) \ {requested_by[t]} # {}
        /\ requested_by[t] \in Range(notify_users)
        /\ Len(sent[t]) = 2

\* C2 as written: a /detect run that has ended has sent its requester exactly
\* one text message: the confirmation, the negative result or the capture
\* failure notice.
C2_OneTerminalMessage ==
    \A t \in Threads :
        (Ended(t) /\ Explicit(t)) =>
            /\ Len(TextsTo(t, requested_by[t])) = 1
            /\ TextsTo(t, requested_by[t])[1].kind \in {"confirm", "negative", "capture_failed"}

\* C3 as written: when no run is in progress and archiving is disabled,
\* neither temp_image.jpg nor temp_detection_image.jpg is on disk.
C3_NoTransientFileLeft ==
    ((\A t \in Threads : pc[t] \in {"boot", "idle", "done", "raised"}) /\ ~save_detected_images) =>
        ~disk[TempImage].exists /\ ~disk[TempDetection].exists


\* C4 as written: the caption a run matches is that of the bytes the run
\* itself captured, and so is every image the run sends.
C4_OwnBytesOnly ==
    \A t \in Threads :
        /\ captioned[t] # NoImage => captioned[t] = image_data[t]
        /\ \A m \in Calls(t) : m.photo => m.data = image_data[t]

\* C5: a run without requester (scheduled or hotkey) whose result is not
\* matched has made no Bot API call at all.
C5_UnmatchedIsSilent ==
    \A t \in Threads :
        (requested_by[t] = NoUser /\ ~Matched(t)) => sent[t] = <<>>

C5_Witness ==
    /\ notify_users # <<>>
    /\ pc[Main] = "done" /\ ~manual[Main] /\ "match" \in steps[Main] /\ ~Matched(Main)
    /\ pc[Spawned] = "done" /\ manual[Spawned] /\ requested_by[Spawned] = NoUser
    /\ "match" \in steps[Spawned] /\ ~Matched(Spawned)
    /\ detection_result[Spawned].caption = CaptionOf("img_empty")

\* C6: a matched /detect run never sends its requester the alert text or the
\* alert image, and when it returns the requester has been sent exactly one
\* text, the confirmation.
C6_NoAlertToRequester ==
    \A t \in Threads :
        (Explicit(t) /\ Matched(t)) =>
            /\ \A m \in Calls(t) : m.to = requested_by[t] => m.kind \notin {"alert", "alert_photo"}
            /\ pc[t] = "done" =>
                  /\ Len(TextsTo(t, requested_by[t])) = 1
                  /\ TextsTo(t, requested_by[t])[1].kind = "confirm"

C6_Witness ==
    \E t \in Threads :
        /\ pc[t] = "done" /\ Explicit(t) /\ Matched(t)
        /\ requested_by[t] \in Range(notify_users)
        /\ Len(notify_users) > 1
        /\ Len(TextsTo(t, requested_by[t])) = 1

\* C7 as written: when a /detect run that fetched an image returns, an image
\* has been sent to the requester.
C7_ImageAlwaysAttached ==
    \A t \in Threads :
        (pc[t] = "done" /\ Explicit(t) /\ image_data[t] # NoImage) =>
            Len(PhotosTo(t, requested_by[t])) >= 1

\* C7 amended: when a /detect run that fetched an image returns, matched or
\* not, the file save_image wrote has been sent to the requester once, after
\* the reply text, exactly when save_image returned a path and the reply text
\* was sent successfully; otherwise no image has been sent.
C7_ImageAttachedWhenAvailable ==
    \A t \in Threads :
        (pc[t] = "done" /\ Explicit(t) /\ image_data[t] # NoImage) =>
            LET texts == TextsTo(t, requested_by[t])
                photos == PhotosTo(t, requested_by[t])
            IN /\ Len(texts) = 1
               /\ Len(photos) = IF texts[1].ok /\ image_path[t] # NoPath THEN 1 ELSE 0
               /\ Len(photos) = 1 =>
                     /\ sent[t] = texts \o photos
                     /\ photos[1].kind = IF Matched(t) THEN "confirm_photo" ELSE "negative_photo"

C7_Witness ==
    \E t \in Threads :
        /\ pc[t] = "done" /\ Explicit(t) /\ ~Matched(t)
        /\ "match" \in steps[t]
        /\ Len(PhotosTo(t, requested_by[t])) = 1

\* the entries of notify_users that the loop of thread t has been through
Visited(t) == 1..(loop_i[t] - 1)
Broadcasting(t) == requested_by[t] = NoUser /\ Matched(t) /\ pc[t] \in {"broadcast", "done"}
LeavesLoop(t) == pc[t] = "broadcast" /\ pc'[t] \in {"requester", "done"}
\* the step is Ctrl+C ending the main thread, not a step of the run of t
Interrupts(t) == pc[t] \notin {"exited", "dead"} /\ pc'[t] \in {"exited", "dead"}

\* C8 as written: when the broadcast of a matched run without requester
\* ends, every entry of notify_users has been sent the alert text and the
\* image.
C8_TextAndImageToAll ==
    [][\A t \in Threads :
         (LeavesLoop(t) /\ requested_by[t] = NoUser) =>
            \A u \in Range(notify_users) : Alerted(sent[t], u) /\ AlertPhoto(sent[t], u)]_vars

\* C8 amended: a matched run without requester sends the alert text to
\* every entry of notify_users, in list order, and the loop ends only when
\* all entries are done; the image follows the text exactly for the entries
\* whose text was sent successfully, and only if save_image returned a path.
C8_TextToAllImageIfSent ==
    /\ [](\A t \in Threads :
            Broadcasting(t) =>
               /\ loop_i[t] - 1 <= Len(notify_users)
               /\ LET texts == SelectSeq(sent[t], LAMBDA m : ~m.photo)
                  IN [k \in DOMAIN texts |-> texts[k].to] = SubSeq(notify_users, 1, loop_i[t] - 1)
               /\ \A i \in Visited(t) :
                     LET u == notify_users[i]
                         text == SelectSeq(sent[t], LAMBDA m : m.to = u /\ m.kind = "alert")
                     IN /\ Len(text) = 1
                        /\ AlertPhoto(sent[t], u) <=> (text[1].ok /\ image_path[t] # NoPath))
    /\ [][\A t \in Threads :
            (LeavesLoop(t) /\ requested_by[t] = NoUser) =>
               \A u \in Range(notify_users) : Alerted(sent[t], u)]_vars

C8_Witness ==
    /\ Len(notify_users) >= 2
    /\ pc[Main] = "done" /\ Broadcasting(Main)
    /\ \A u \in Range(notify_users) : AlertPhoto(sent[Main], u)
    /\ pc[Spawned] = "done" /\ Broadcasting(Spawned)
    /\ \A u \in Range(notify_users) : Alerted(sent[Spawned], u)

\* C9: once a delivery of the broadcast has failed, the loop still goes on
\* while entries of notify_users remain: the next step of the run is the
\* attempt to the next entry.
C9_FailureDoesNotStopLoop ==
    [][\A t \in Threads :
         (/\ pc[t] = "broadcast"
          /\ requested_by[t] = NoUser
          /\ \E m \in Calls(t) : ~m.ok
          /\ loop_i[t] <= Len(notify_users)
          /\ ~Interrupts(t)
          /\ <<pc[t], loop_i[t], sent[t]>> # <<pc'[t], loop_i'[t], sent'[t]>>) =>
            /\ pc'[t] = "broadcast"
            /\ loop_i'[t] = loop_i[t] + 1
            /\ Len(sent'[t]) > Len(sent[t])
            /\ sent'[t][Len(sent[t]) + 1].to = notify_users[loop_i[t]]
            /\ sent'[t][Len(sent[t]) + 1].kind = "alert"]_vars

C9_Witness ==
    \E t \in Threads :
        /\ Broadcasting(t) /\ pc[t] = "done"
        /\ Len(sent[t]) >= 2
        /\ ~sent[t][1].ok
        /\ sent[t][2].to # sent[t][1].to /\ sent[t][2].kind = "alert"

\* C10: a run whose capture failed has returned without the caption, match,
\* persist and dispatch steps; its only Bot API call is the capture failure
\* notice to the requester, if there is one.
C10_CaptureFailureEndsRun ==
    \A t \in Threads :
        (pc[t] \notin {"boot", "idle", "capture", "exited", "dead"} /\ image_data[t] = NoImage) =>
            /\ pc[t] = "done"
            /\ steps[t] = {}
            /\ captioned[t] = NoImage
            /\ detection_result[t] = NoResult
            /\ image_path[t] = NoPath
            /\ IF requested_by[t] # NoUser
               THEN /\ Len(sent[t]) = 1
                    /\ sent[t][1].to = requested_by[t]
                    /\ sent[t][1].kind = "capture_failed"
               ELSE sent[t] = <<>>

C10_Witness ==
    /\ notify_users # <<>>
    /\ pc[Main] = "done" /\ image_data[Main] = NoImage /\ sent[Main] = <<>>
    /\ pc[Spawned] = "done" /\ image_data[Spawned] = NoImage
    /\ requested_by[Spawned] # NoUser /\ Len(sent[Spawned]) = 1

\* ------------------------------------------------- matching alone

\* lines 193-212 of detect_object on their own: the configured list and the
\* caption are drawn from the words below, and the one step applies Match
MaxTriggers == 2
MaxTokens == 3
TriggerVocab == { <<"d","o","g">>, <<"C","a","t">>, <<"u","p">> }
TokenVocab == { <<"c","a","t">>, <<"D","o","g">>, <<"c","a","t","s","u","p">>,
                <<"c","a","t","2">>, <<"a">> }
Separators == { <<" ">>, <<",", " ">>, <<".">> }
SeqsUpTo(S, n) == UNION {[1..k -> S] : k \in 0..n}

\* the caption: the words, with the separator between two of them
RECURSIVE Join(_, _)
Join(tokens, sep) ==
    IF tokens = <<>> THEN <<>>
    ELSE IF Len(tokens) = 1 THEN tokens[1]
    ELSE tokens[1] \o sep \o Join(Tail(tokens), sep)
Caption == Join(m_tokens, m_sep)

InitMatch ==
    /\ InitRun
    /\ m_words \in SeqsUpTo(TriggerVocab, MaxTriggers)
    /\ m_tokens \in SeqsUpTo(TokenVocab, MaxTokens)
    /\ m_sep \in Separators
    /\ m_result = [done |-> FALSE, result |-> NoResult]

\* detect_object, lines 193-212
MatchApply ==
    /\ ~m_result.done
    /\ m_result' = [done |-> TRUE, result |-> Match(Caption, m_words)]
    /\ UNCHANGED <<m_words, m_tokens, m_sep, notify_users, initial_run,
                   save_detected_images, disk, pc, requested_by, explicit_request,
                   manual, image_data, detection_result, image_path, loop_i, sent,
                   steps, captioned>>

NextMatch == MatchApply
SpecMatch == InitMatch /\ [][NextMatch]_vars

\* the configured words that are, case aside, one of the words of the caption
Hits == {i \in DOMAIN m_words :
            \E k \in DOMAIN m_tokens : Lower(m_tokens[k]) = Lower(m_words[i])}
\* where in the caption the configured word i stands first
FirstAt(i) == CHOOSE k \in DOMAIN m_tokens :
                 /\ Lower(m_tokens[k]) = Lower(m_words[i])
                 /\ \A j \in 1..(k - 1) : Lower(m_tokens[j]) # Lower(m_words[i])

\* ---------------------------------------------------------------- C12

\* C12: when configured trigger words occur in the caption, the reported
\* trigger word is the first of them in the configured list, in its
\* configured spelling, wherever the words stand in the caption.
C12_FirstConfiguredWins ==
    (m_result.done /\ Hits # {}) =>
        \E i \in Hits :
            /\ \A j \in Hits : i <= j
            /\ m_result.result.trigger_word = m_words[i]

\* two configured words occur, and the one configured first stands later in
\* the caption than the other
C12_Witness ==
    /\ m_result.done
    /\ \E i, j \in Hits :
          /\ i < j /\ Lower(m_words[i]) # Lower(m_words[j])
          /\ FirstAt(j) < FirstAt(i)
          /\ m_result.result.trigger_word = m_words[i]

\* ---------------------------------------------------------------- C13

\* C13: the result is matched exactly when a configured word is, case aside,
\* a whole word of the caption; an unmatched result has the empty trigger
\* word; the caption is returned as it was generated.
C13_WholeWordOnly ==
    m_result.done =>
        /\ m_result.result.object_detected <=> Hits # {}
        /\ ~m_result.result.object_detected => m_result.result.trigger_word = <<>>
        /\ m_result.result.caption = Caption

\* a configured word is a proper part of a word of the caption and no
\* configured word is a whole word of it: the result is unmatched
C13_Witness ==
    /\ m_result.done
    /\ Hits = {}
    /\ \E i \in DOMAIN m_words : \E k \in DOMAIN m_tokens :
          /\ Contains(Lower(m_tokens[k]), Lower(m_words[i]))
          /\ Len(m_tokens[k]) > Len(m_words[i])
    /\ ~m_result.result.object_detected
    /\ m_result.result.caption # <<>>

\* ---------------------------------------------------------------- C11

\* the positions of a thread inside check_for_objects
RunLabels == {"capture", "detect_write", "detect_caption", "detect_exists",
              "detect_unlink", "except_exists", "except_unlink", "save",
              "broadcast", "requester", "negative"}
InRun(t) == pc[t] \in RunLabels
\* the run on the main thread was started by the timer (line 445), not by
\* line 429
ScheduledRunning == InRun(Main) /\ ~initial_run

\* C11 as written: no trigger source is held by its run; in particular the
\* thread of the polling loop is never inside a run that the timer started.
C11_NoSourceBlocked == ~ScheduledRunning

\* C11: the runs of /detect and of the hotkey execute on a thread of their
\* own; the run of the timer executes on the thread of the polling loop,
\* which makes no further tick until that run has ended.
C11_OnlyManualRunsAsync ==
    /\ \A t \in Threads : InRun(t) => (manual[t] <=> t = Spawned)
    /\ InRun(Main) => ~ENABLED ScheduledRun

C11_Witness ==
    /\ ScheduledRunning
    /\ InRun(Spawned) /\ manual[Spawned]
    /\ requested_by[Spawned] # NoUser

\* ---------------------------------------------------------------- C14

\* the run of t has failed to capture the image, or has entered the except
\* branch of detect_object
CaptureFailed(t) ==
    pc[t] \notin {"boot", "idle", "capture", "exited", "dead"} /\ image_data[t] = NoImage
CaptionFailed(t) ==
    \/ pc[t] \in {"except_exists", "except_unlink", "raised"}
    \/ detection_result[t] = ErrorResult

\* C14: a run whose capture or caption has failed makes no Bot API call to
\* anybody but its requester; with no requester it makes none.
C14_FailureOnlyToRequester ==
    \A t \in Threads :
        (CaptureFailed(t) \/ CaptionFailed(t)) =>
            \A m \in Calls(t) : m.to = requested_by[t]

C14_Witness ==
    /\ \E u \in Range(notify_users) : u # requested_by[Spawned]
    /\ pc[Spawned] = "done" /\ detection_result[Spawned] = ErrorResult
    /\ requested_by[Spawned] # NoUser /\ sent[Spawned] # <<>>
    /\ pc[Main] = "done" /\ CaptureFailed(Main) /\ sent[Main] = <<>>

\* ---------------------------------------------------------------- C15

\* C15 as written: the step in which Ctrl+C ends the main thread, and with
\* it releases the listeners, is taken only when no run is in flight: a run
\* that was in flight at the signal has gone to its end first.
C15_RunsEndBeforeRelease ==
    [][Interrupts(Main) => \A t \in Threads : ~InRun(t)]_vars

\* ---------------------------------------------------------------- C16

\* C16 as written: a run that is in the except branch of detect_object
\* leaves it with the result of lines 228-231, unmatched and with the error
\* as caption, and goes on to the persistence decision.
C16_FailureBecomesResult ==
    [][\A t \in Threads :
         (/\ pc[t] \in {"except_exists", "except_unlink"}
          /\ pc'[t] # pc[t]
          /\ ~Interrupts(t)) =>
            \/ pc[t] = "except_exists" /\ pc'[t] = "except_unlink"
            \/ /\ pc'[t] = "save"
               /\ detection_result'[t] = ErrorResult
               /\ ~detection_result'[t].object_detected]_vars

\* ---------------------------------------------------------------- C17

\* C17 as written: check_for_objects never raises, whatever fails, and no
\* failure of a run stops the process from accepting triggers.
C17_NothingIsFatal ==
    /\ \A t \in Threads : pc[t] # "raised"
    /\ Stopped => pc[Main] = "exited"

\* ---------------------------------------------------------------- C18

\* the run of t is past line 375
PastSave(t) ==
    \/ pc[t] \in {"broadcast", "requester", "negative"}
    \/ pc[t] = "done" /\ "caption" \in steps[t]
\* the files save_image writes
SavedFiles == Paths \ {TempImage}

WriteFailed(t) == "persist" \in steps[t] /\ image_path[t] = NoPath
Kinds(t) == [k \in DOMAIN sent[t] |-> sent[t][k].kind]
Recipients(t) == [k \in DOMAIN sent[t] |-> sent[t][k].to]

\* C19: a run whose image could not be written goes on to its dispatch and
\* sends no image; when it has returned, its calls are the texts of a run
\* of its kind: the alert to the entries of notify_users in order, or the
\* confirmation to the requester, or the negative result to the requester.
C19_WriteFailureKeepsTexts ==
    \A t \in Threads :
        WriteFailed(t) =>
            /\ pc[t] \in {"broadcast", "requester", "negative", "done"}
            /\ \A m \in Calls(t) : ~m.photo
            /\ pc[t] = "done" =>
                  IF ~Matched(t)
                  THEN Kinds(t) = <<"negative">> /\ Recipients(t) = <<requested_by[t]>>
                  ELSE IF Explicit(t)
                  THEN Kinds(t) = <<"confirm">> /\ Recipients(t) = <<requested_by[t]>>
                  ELSE /\ \A k \in DOMAIN sent[t] : sent[t][k].kind = "alert"
                       /\ Recipients(t) = SubSeq(notify_users, 1, loop_i[t] - 1)

C19_Witness ==
    /\ pc[Main] = "done" /\ WriteFailed(Main) /\ Matched(Main)
    /\ Len(sent[Main]) >= 2
    /\ pc[Spawned] = "done" /\ WriteFailed(Spawned) /\ Explicit(Spawned)
    /\ sent[Spawned] # <<>>

\* ---------------------------------------------------------------- C20

\* C20 as written: a run has a requester exactly when it was not started by
\* the timer or the startup, that is, when manual is set.
C20_RequesterIffNotScheduled ==
    \A t \in Threads : InRun(t) => (requested_by[t] # NoUser <=> manual[t])

\* C20: a run has a requester exactly when it is the explicit request of
\* /detect; the runs of the hotkey are manual and have none, the runs of the
\* timer and of the startup are not manual and have none.
C20_RequesterIffExplicit ==
    \A t \in Threads :
        InRun(t) =>
            /\ requested_by[t] # NoUser <=> explicit_request[t]
            /\ explicit_request[t] => manual[t]

C20_Witness ==
    /\ InRun(Spawned) /\ manual[Spawned]
    /\ requested_by[Spawned] = NoUser /\ ~explicit_request[Spawned]
    /\ InRun(Main) /\ ~manual[Main] /\ requested_by[Main] = NoUser

\* ---------------------------------------------------------------- C21

C22_OnlyStartChangesList ==
    [][notify_users' # notify_users =>
         /\ \E u \in Users : notify_users' = Append(notify_users, u)
         /\ UNCHANGED <<pc, sent, loop_i, steps, disk, image_data, detection_result,
                        image_path, requested_by, explicit_request, manual>>]_vars

\* both threads have returned from a matched run, the main thread's with a
\* failed delivery in its broadcast, and the list still holds every user
\* that was written to
C22_Witness ==
    /\ pc[Main] = "done" /\ Broadcasting(Main)
    /\ \E m \in Calls(Main) : ~m.ok
    /\ pc[Spawned] = "done" /\ Matched(Spawned) /\ Explicit(Spawned)
    /\ sent[Spawned] # <<>>
    /\ \A m \in Calls(Main) : m.to \in Range(notify_users)
    /\ Len(notify_users) >= 2

\* ---------------------------------------------------------------- C23

\* C23: notify_users holds no user id twice, and a step that changes it
\* appends one id that was not in it: a /start of a user already in the list
\* changes nothing, and no entry is removed or moved.
C23_SubscribeIdempotentAppendOnly ==
    /\ [](\A i, j \in DOMAIN notify_users :
             notify_users[i] = notify_users[j] => i = j)
    /\ [][notify_users' # notify_users =>
            \E u \in Users \ Range(notify_users) :
                notify_users' = Append(notify_users, u)]_vars

\* every user has subscribed: each further /start finds its user in the list
C23_Witness ==
    /\ Range(notify_users) = Users
    /\ Len(notify_users) = MaxUsers
    /\ \A u \in Users : ENABLED StartCommand(u)

\* ---------------------------------------------------------------- C24

\* C24: in the calls of a run, the image of the broadcast to a user comes
\* directly after the alert text to the same user, and that text was sent
\* successfully; a user whose alert text failed is sent no image.
C24_AlertTextBeforeImage ==
    \A t \in Threads : \A k \in DOMAIN sent[t] :
        /\ sent[t][k].kind = "alert_photo" =>
              /\ k > 1
              /\ sent[t][k - 1].kind = "alert"
              /\ ~sent[t][k - 1].photo
              /\ sent[t][k - 1].to = sent[t][k].to
              /\ sent[t][k - 1].ok
        /\ (sent[t][k].kind = "alert" /\ ~sent[t][k].ok) =>
              ~AlertPhoto(sent[t], sent[t][k].to)

\* a broadcast whose first alert text failed and whose second was sent,
\* followed by the image
C24_Witness ==
    \E t \in Threads :
        /\ Len(sent[t]) >= 3
        /\ sent[t][1].kind = "alert" /\ ~sent[t][1].ok
        /\ sent[t][2].kind = "alert" /\ sent[t][2].ok
        /\ sent[t][3].kind = "alert_photo" /\ sent[t][3].to = sent[t][2].to

====
